---- MODULE Spec2Model ----
(***************************************************************************)
(* Math trainer: the problem generator and the session state machine of    *)
(* src/trainer.py (the CLI command `train`) and src/trainer_streamlit.py   *)
(* (the Streamlit page `main`), with the per-user CSV log of save_result.  *)
(*                                                                         *)
(* One behaviour is one driving surface (chosen in Init): either a shell   *)
(* in which `train` is invoked again and again, or one browser session of  *)
(* the Streamlit page.  The operation and the mode the user asks for are   *)
(* chosen in Init too and kept for the behaviour; the user, the maximum    *)
(* number and the number of questions are chosen anew for every session.   *)
(* In the Streamlit surface every action is one script run: the widget     *)
(* callback (if any) followed by the body of main().  In the CLI surface   *)
(* an action is the code between two calls of input().                     *)
(*                                                                         *)
(* Text is modelled as sequences of one-character strings (user names,     *)
(* typed answers) or of tokens (prompts).  Floats are modelled as exact    *)
(* rationals [num, den]; time.time() differences are drawn from            *)
(* 1..MaxLatency; datetime.now() is a logical clock `now` that ticks at    *)
(* every call of save_result.                                              *)
(***************************************************************************)
EXTENDS Integers, Sequences, FiniteSets, TLC

\* ------------------------------------------------------------------ bounds
MaxOperand == 1
MaxQuestions == 2
MaxLatency == 1
MaxSaves == 2
MaxAnswers == 2

\* ------------------------------------------------------------ characters
DigitChars == <<"0", "1", "2", "3", "4", "5", "6", "7", "8", "9">>

IsDigit(c) == \E i \in 1..10 : DigitChars[i] = c

DigitVal(c) == (CHOOSE i \in 1..10 : DigitChars[i] = c) - 1

IsSpace(c) == c = " "

UpperChars == {"J"}

LowerChars == {"a", "e", "i", "j", "l", "m", "n", "s", "u"}

\* str.isalnum()
IsAlnum(c) == c \in UpperChars \/ c \in LowerChars \/ IsDigit(c)

\* str.lower() on one character
Lower(c) == IF c = "J" THEN "j" ELSE c

RECURSIVE SanitizeChars(_)
SanitizeChars(s) ==
    IF s = <<>> THEN <<>>
    ELSE (IF IsAlnum(Head(s)) THEN <<Lower(Head(s))>> ELSE <<>>) \o SanitizeChars(Tail(s))

\* The file name is "math_history_" + safe_name + ".csv"; the constant prefix
\* and suffix are left out, the file is named by safe_name.
get_history_filename(u) == SanitizeChars(u)

\* str.strip()
RECURSIVE LStrip(_)
LStrip(s) == IF s # <<>> /\ IsSpace(Head(s)) THEN LStrip(Tail(s)) ELSE s

RECURSIVE RStrip(_)
RStrip(s) ==
    IF s # <<>> /\ IsSpace(s[Len(s)]) THEN RStrip(SubSeq(s, 1, Len(s) - 1)) ELSE s

Strip(s) == RStrip(LStrip(s))

\* int(str): surrounding whitespace, an optional sign, then decimal digits in
\* which single underscores may separate digits.  [ok |-> FALSE] is ValueError.
RECURSIVE DigitsValue(_, _)
DigitsValue(s, acc) ==
    IF s = <<>> THEN acc
    ELSE IF Head(s) = "_" THEN DigitsValue(Tail(s), acc)
    ELSE DigitsValue(Tail(s), 10 * acc + DigitVal(Head(s)))

ValidDigits(s) ==
    /\ s # <<>>
    /\ \A i \in 1..Len(s) : IsDigit(s[i]) \/ s[i] = "_"
    /\ IsDigit(s[1])
    /\ IsDigit(s[Len(s)])
    /\ \A i \in 1..(Len(s) - 1) : ~(s[i] = "_" /\ s[i + 1] = "_")

ParseInt(raw) ==
    LET s == Strip(raw)
        signed == s # <<>> /\ Head(s) \in {"+", "-"}
        body == IF signed THEN Tail(s) ELSE s
        sign == IF signed /\ Head(s) = "-" THEN -1 ELSE 1
    IN  IF ValidDigits(body)
        THEN [ok |-> TRUE, val |-> sign * DigitsValue(body, 0)]
        ELSE [ok |-> FALSE, val |-> 0]

\* str(n) for n >= 0, as characters
RECURSIVE DecimalChars(_)
DecimalChars(n) ==
    IF n < 10 THEN <<DigitChars[n + 1]>>
    ELSE DecimalChars(n \div 10) \o <<DigitChars[(n % 10) + 1]>>

\* ------------------------------------------------------- problem generator
\* random.randint(lo, hi): every integer of lo..hi; the empty set stands for
\* the ValueError of an empty range.
randint(lo, hi) == lo..hi

\* f"{n}" of an integer, as one token of a prompt
Str(n) == ToString(n)

\* A generated problem: the locals a, b, result, current_op, is_missing_val
\* and the pair (prompt, correct) made from them.
Problem(a, b, result, op, missing, prompt, correct) ==
    [a |-> a, b |-> b, result |-> result, current_op |-> op,
     is_missing_val |-> missing, prompt |-> prompt, correct |-> correct]

NoProblem == Problem(0, 0, 0, "none", FALSE, <<>>, 0)

\* --- src/trainer.py, the body of the question loop
TrainOperation(operation) ==
    IF operation = "both" THEN {"addition", "subtraction"} ELSE {operation}

TrainMissing(mode) ==
    IF mode = "missing" THEN {TRUE}
    ELSE IF mode = "mixed" THEN {TRUE, FALSE}
    ELSE {FALSE}

TrainAddition(a, b, is_missing_val) ==
    LET result == a + b
    IN  IF is_missing_val
        THEN Problem(a, b, result, "addition", TRUE,
                     <<Str(a), "+", "_", "=", Str(result)>>, b)
        ELSE Problem(a, b, result, "addition", FALSE,
                     <<Str(a), "+", Str(b), "=">>, result)

\* Mutant: b is drawn from the whole range, as for an addition.
TrainSubtractionOperandsFree(max_number) ==
    {<<a, b>> : a \in randint(0, max_number), b \in randint(0, max_number)}

\* a = randint(0, max_number); b = randint(0, a)
TrainSubtractionOperands(max_number) ==
    UNION {{<<a, b>> : b \in randint(0, a)} : a \in randint(0, max_number)}

TrainSubtraction(a, b, is_missing_val) ==
    LET result == a - b
    IN  IF is_missing_val
        THEN Problem(a, b, result, "subtraction", TRUE,
                     <<Str(a), "-", "_", "=", Str(result)>>, b)
        ELSE Problem(a, b, result, "subtraction", FALSE,
                     <<Str(a), "-", Str(b), "=">>, result)

\* Every (problem) one pass of steps 1-3 of the loop can produce.
TrainProblems(max_number, operation, mode) ==
    UNION {
        IF current_op = "addition"
        THEN {TrainAddition(a, b, m) :
                a \in randint(0, max_number), b \in randint(0, max_number)}
        ELSE {TrainSubtraction(ab[1], ab[2], m) :
                ab \in TrainSubtractionOperands(max_number)}
        : current_op \in TrainOperation(operation), m \in TrainMissing(mode)}

\* --- src/trainer_streamlit.py
choose_operation(requested) ==
    IF requested = "both" THEN {"addition", "subtraction"} ELSE {requested}

\* Mutant: the test of the mode is inverted.
choose_missing_inverted(mode) ==
    IF mode \in {"mixed", "both"} THEN {TRUE, FALSE} ELSE {mode # "missing"}

choose_missing(mode) ==
    IF mode \in {"mixed", "both"} THEN {TRUE, FALSE} ELSE {mode = "missing"}

\* Mutant: the hidden-operand form expects the result instead of b.
addition_problem_swapped(a, b, is_missing_val) ==
    LET result == a + b
    IN  IF is_missing_val
        THEN Problem(a, b, result, "addition", TRUE,
                     <<Str(a), "+", "_", "=", Str(result)>>, result)
        ELSE Problem(a, b, result, "addition", FALSE,
                     <<Str(a), "+", Str(b), "=", "?">>, result)

addition_problem(a, b, is_missing_val) ==
    LET result == a + b
    IN  IF is_missing_val
        THEN Problem(a, b, result, "addition", TRUE,
                     <<Str(a), "+", "_", "=", Str(result)>>, b)
        ELSE Problem(a, b, result, "addition", FALSE,
                     <<Str(a), "+", Str(b), "=", "?">>, result)

\* a = randint(0, max_number); b = randint(0, a)
subtraction_operands(max_number) ==
    UNION {{<<a, b>> : b \in randint(0, a)} : a \in randint(0, max_number)}

subtraction_problem(a, b, is_missing_val) ==
    LET result == a - b
    IN  IF is_missing_val
        THEN Problem(a, b, result, "subtraction", TRUE,
                     <<Str(a), "-", "_", "=", Str(result)>>, b)
        ELSE Problem(a, b, result, "subtraction", FALSE,
                     <<Str(a), "-", Str(b), "=", "?">>, result)

\* Every problem one call of generate_problem can return.
generate_problem(max_number, operation, mode) ==
    UNION {
        IF current_op = "addition"
        THEN {addition_problem(a, b, m) :
                a \in randint(0, max_number), b \in randint(0, max_number)}
        ELSE {subtraction_problem(ab[1], ab[2], m) :
                ab \in subtraction_operands(max_number)}
        : current_op \in choose_operation(operation), m \in choose_missing(mode)}

\* _compact_equation_from_prompt_and_answer: every "?" and "_" of the prompt
\* replaced by str(answer)
compact_equation(prompt, answer) ==
    [i \in 1..Len(prompt) |->
        IF prompt[i] \in {"?", "_"} THEN Str(answer) ELSE prompt[i]]

\* ------------------------------------------------------------ summary, log
\* A float, as the exact rational num / den.
Ratio(n, d) == [num |-> n, den |-> d]

RECURSIVE SumSeq(_)
SumSeq(s) == IF s = <<>> THEN 0 ELSE Head(s) + SumSeq(Tail(s))

\* accuracy = (correct / num_questions) * 100
Accuracy(correct, total_q) == Ratio(100 * correct, total_q)

\* avg_time = sum(times) / len(times)
AvgTime(times) == Ratio(SumSeq(times), Len(times))

\* f"{x:.2f}" of a non-negative x, as a whole number of hundredths
Fmt2(x) == (200 * x.num + x.den) \div (2 * x.den)

NoSummary == [displayed |-> FALSE, accuracy |-> Ratio(0, 1), avg_time |-> Ratio(0, 1)]

Summary(accuracy, avg_time) ==
    [displayed |-> TRUE, accuracy |-> accuracy, avg_time |-> avg_time]

\* --user: any string
CLIUsers == {<<"J", "u", "l", "i", "e">>, <<"j", "u", "-", "l", "i", "e">>}

\* st.selectbox("User", options=["Julie", "Jasmina"])
StreamlitUsers == {<<"J", "u", "l", "i", "e">>, <<"J", "a", "s", "m", "i", "n", "a">>}

Files == {get_history_filename(u) : u \in CLIUsers \cup StreamlitUsers}

\* A log file: whether it exists, whether its header row was written, and its
\* data rows in file order.
NoFile == [exists |-> FALSE, header |-> FALSE, rows |-> <<>>]

Row(ts, accuracy, avg_time, num_questions, operation, mode) ==
    [Timestamp |-> ts, Accuracy |-> Fmt2(accuracy), AvgTime |-> Fmt2(avg_time),
     Questions |-> num_questions, Operation |-> operation, Mode |-> mode]

\* save_result when open() and the writes succeed: the file system after it.
save_result(files, u, ts, accuracy, avg_time, num_questions, operation, mode) ==
    LET filename == get_history_filename(u)
        file_exists == files[filename].exists
        file == files[filename]
    IN  [files EXCEPT ![filename] =
            [exists |-> TRUE,
             header |-> IF file_exists THEN file.header ELSE TRUE,
             rows |-> Append(file.rows,
                             Row(ts, accuracy, avg_time, num_questions, operation, mode))]]

\* open(filename, 'a') either succeeds or raises OSError (unwritable file or
\* directory); nothing is written in the second case.
IOOutcomes == {"ok", "OSError"}

\* ------------------------------------------------------------------ inputs
\* typer options of `train`: any string, any integer
CLIOperations == {"addition", "subtraction", "both", "multiplication"}

CLIModes == {"standard", "missing", "mixed", "hidden"}

CLIMaxNumbers == (-1)..MaxOperand

CLIQuestionCounts == (-1)..MaxQuestions

\* The sidebar widgets.  The slider 5..20 and the options 5, 10, .., 30 are
\* scaled down to 1..MaxOperand and 1..MaxQuestions.
SidebarOperations == {"addition", "subtraction", "both"}

SidebarModes == {"standard", "missing", "both"}

SidebarMaxNumbers == 1..MaxOperand

SidebarQuestionCounts == 1..MaxQuestions

\* What the user types as an answer: every number a problem can ask for, and
\* texts that int() accepts or refuses for other reasons.
RawInputs ==
    {DecimalChars(k) : k \in 0..(2 * MaxOperand)} \cup
    {<<>>, <<" ">>, <<" ", "1", " ">>, <<"+", "1">>, <<"0", "_", "1">>,
     <<"a">>, <<"1", ".", "5">>, <<"_", "1">>}

Latencies == 1..MaxLatency

\* ------------------------------------------------------------------- state
VARIABLES
    surface,          \* "cli" or "streamlit"
    sel_operation,    \* the --operation the user types / the Operation radio
    sel_mode,         \* the --mode the user types / the Mode radio
    pc,               \* cli: "shell", "input" (blocked in input()), "exited";
                      \* streamlit: "unloaded", "page"
    user, max_number, num_questions, operation, mode,
                      \* the parameters of train / the arguments of
                      \* start_session kept in st.session_state
    keys,             \* streamlit: which keys st.session_state holds
    started,          \* st.session_state.started
    current_question, \* question_num / st.session_state.current_question
    correct_count,    \* correct_answers / st.session_state.correct_count
    total_times,      \* total_time_per_question / st.session_state.total_times
    mistakes,         \* sequence of <<prompt, answer, correct>>
    answer_log,       \* st.session_state.answer_log
    problem,          \* the current problem: prompt, correct and the draws
    answer_input,     \* the value of the "Your answer" text input
    error,            \* how the last process or script run ended
    warning,          \* the message the last step showed, if any
    shown,            \* the summary displayed by the last process / script run
    log,              \* the log files, by file name
    now,              \* the clock
    sessions,         \* history: completed sessions, <<file, row>> in order
    write_failed,     \* history: some save_result call raised OSError
    answered,         \* history: integer answers scored so far
    abandoned         \* history: the last step discarded a session in progress

vars == <<surface, sel_operation, sel_mode, pc, user, max_number, num_questions, operation, mode, keys,
          started, current_question, correct_count, total_times, mistakes,
          answer_log, problem, answer_input, error, warning, shown, log, now,
          sessions, write_failed, answered, abandoned>>

config == <<user, max_number, num_questions, operation, mode>>

disk == <<log, now, sessions, write_failed>>

ResetKeys == {"started", "current_question", "correct_count", "total_times",
              "mistakes", "prompt", "correct", "q_start", "answer_log"}

InitKeys == {"started", "current_question", "correct_count", "total_times",
             "mistakes", "answer_log"}

ConfigKeys == {"max_number", "num_questions", "operation", "mode"}

Init ==
    /\ surface \in {"cli", "streamlit"}
    /\ sel_operation \in IF surface = "cli" THEN CLIOperations ELSE SidebarOperations
    /\ sel_mode \in IF surface = "cli" THEN CLIModes ELSE SidebarModes
    /\ pc = IF surface = "cli" THEN "shell" ELSE "unloaded"
    /\ user = <<>>
    /\ max_number = 0
    /\ num_questions = 0
    /\ operation = "none"
    /\ mode = "none"
    /\ keys = {}
    /\ started = FALSE
    /\ current_question = 0
    /\ correct_count = 0
    /\ total_times = <<>>
    /\ mistakes = <<>>
    /\ answer_log = <<>>
    /\ problem = NoProblem
    /\ answer_input = <<>>
    /\ error = "none"
    /\ warning = "none"
    /\ shown = NoSummary
    /\ log = [f \in Files |-> NoFile]
    /\ now = 0
    /\ sessions = <<>>
    /\ write_failed = FALSE
    /\ answered = 0
    /\ abandoned = FALSE

\* A scoring step that counts every answer as correct and still records the
\* wrong ones.
TrainScoreBoth(answer) ==
    [correct_answers |-> correct_count + 1,
     mistakes |-> IF answer = problem.correct THEN mistakes
                  ELSE Append(mistakes, <<problem.prompt, answer, problem.correct>>)]

\* ------------------------------------------------------ src/trainer.py: train
\* Step 5 of the loop: the locals after `answer` was compared with `correct`.
TrainScore(answer) ==
    [correct_answers |-> IF answer = problem.correct THEN correct_count + 1
                         ELSE correct_count,
     mistakes |-> IF answer = problem.correct THEN mistakes
                  ELSE Append(mistakes, <<problem.prompt, answer, problem.correct>>)]

\* Step 6, after the loop: the summary is computed and printed, then saved.
\* A zero divisor raises ZeroDivisionError before anything is printed; an
\* OSError of save_result is not caught.
TrainEnd(u, n, op, m, correct_answers, times) ==
    IF n = 0 \/ Len(times) = 0
    THEN /\ pc' = "exited"
         /\ error' = "ZeroDivisionError"
         /\ shown' = NoSummary
         /\ UNCHANGED disk
    ELSE LET accuracy == Accuracy(correct_answers, n)
             avg_time == AvgTime(times)
         IN  /\ pc' = "exited"
             /\ shown' = Summary(accuracy, avg_time)
             /\ sessions' = Append(sessions,
                    <<get_history_filename(u), Row(now, accuracy, avg_time, n, op, m)>>)
             /\ now' = now + 1
             /\ \E io \in IOOutcomes :
                    /\ error' = IF io = "ok" THEN "none" ELSE "OSError"
                    /\ write_failed' = (write_failed \/ io # "ok")
                    /\ log' = IF io = "ok"
                              THEN save_result(log, u, now, accuracy, avg_time, n, op, m)
                              ELSE log

\* `train` is invoked from the shell and runs up to its first input().
Train ==
    /\ surface = "cli"
    /\ abandoned' = FALSE
    /\ pc = "shell"
    /\ now < MaxSaves
    /\ \E u \in CLIUsers, maxn \in CLIMaxNumbers, n \in CLIQuestionCounts,
          m \in {sel_mode}, op \in {sel_operation} :
        /\ answered + n <= MaxAnswers
        /\ user' = u
        /\ max_number' = maxn
        /\ num_questions' = n
        /\ mode' = m
        /\ operation' = op
        /\ warning' = "none"
        /\ correct_count' = 0
        /\ total_times' = <<>>
        /\ mistakes' = <<>>
        /\ UNCHANGED <<surface, sel_operation, sel_mode, keys, started, answer_log, answer_input, answered>>
        /\ IF op \notin {"addition", "subtraction", "both"}
           THEN /\ pc' = "exited"
                /\ error' = "Exit"
                /\ shown' = NoSummary
                /\ current_question' = 0
                /\ problem' = NoProblem
                /\ UNCHANGED disk
           ELSE IF n >= 1
           THEN /\ current_question' = 1
                /\ shown' = NoSummary
                /\ UNCHANGED disk
                /\ IF TrainProblems(maxn, op, m) = {}
                   THEN /\ pc' = "exited"
                        /\ error' = "ValueError"
                        /\ problem' = NoProblem
                   ELSE /\ pc' = "input"
                        /\ error' = "none"
                        /\ problem' \in TrainProblems(maxn, op, m)
           ELSE /\ current_question' = 0
                /\ problem' = NoProblem
                /\ TrainEnd(u, n, op, m, 0, <<>>)

\* The process has ended: its parameters and locals are gone and the shell
\* prompts again.  Only the files stay.
Shell ==
    /\ surface = "cli"
    /\ abandoned' = FALSE
    /\ pc = "exited"
    /\ pc' = "shell"
    /\ user' = <<>>
    /\ max_number' = 0
    /\ num_questions' = 0
    /\ operation' = "none"
    /\ mode' = "none"
    /\ current_question' = 0
    /\ correct_count' = 0
    /\ total_times' = <<>>
    /\ mistakes' = <<>>
    /\ problem' = NoProblem
    /\ error' = "none"
    /\ warning' = "none"
    /\ shown' = NoSummary
    /\ UNCHANGED <<surface, sel_operation, sel_mode, keys, started, answer_log, answer_input, disk, answered>>

\* input() returns a line that is empty after strip(): `continue`.
InputBlank ==
    /\ surface = "cli"
    /\ abandoned' = FALSE
    /\ pc = "input"
    /\ \E raw \in RawInputs :
        /\ Strip(raw) = <<>>
        /\ warning' = "none"
        /\ UNCHANGED <<surface, sel_operation, sel_mode, pc, config, keys, started, current_question,
                       correct_count, total_times, mistakes, answer_log, problem,
                       answer_input, error, shown, disk, answered>>

\* Mutant: the ValueError of int() is not caught and ends the process.
InputInvalidUncaught ==
    /\ surface = "cli"
    /\ abandoned' = FALSE
    /\ pc = "input"
    /\ \E raw \in RawInputs :
        /\ Strip(raw) # <<>>
        /\ ~ParseInt(raw).ok
        /\ pc' = "exited"
        /\ error' = "ValueError"
        /\ warning' = "none"
        /\ UNCHANGED <<surface, sel_operation, sel_mode, config, keys, started, current_question,
                       correct_count, total_times, mistakes, answer_log, problem,
                       answer_input, shown, disk, answered>>

\* int(user_input) raises ValueError: "Please enter a number!" and ask again.
InputInvalid ==
    /\ surface = "cli"
    /\ abandoned' = FALSE
    /\ pc = "input"
    /\ \E raw \in RawInputs :
        /\ Strip(raw) # <<>>
        /\ ~ParseInt(raw).ok
        /\ warning' = "not_integer"
        /\ UNCHANGED <<surface, sel_operation, sel_mode, pc, config, keys, started, current_question,
                       correct_count, total_times, mistakes, answer_log, problem,
                       answer_input, error, shown, disk, answered>>

\* int(user_input) succeeds: the answer is timed and scored, then either the
\* next problem is generated and asked, or the loop ends.
InputInteger ==
    /\ surface = "cli"
    /\ abandoned' = FALSE
    /\ pc = "input"
    /\ \E raw \in RawInputs, q_time \in Latencies :
      \E parsed \in {ParseInt(raw)} :
        /\ Strip(raw) # <<>>
        /\ parsed.ok
        /\ LET answer == parsed.val
               times == Append(total_times, q_time)
               score == TrainScore(answer)
           IN  /\ total_times' = times
               /\ correct_count' = score.correct_answers
               /\ mistakes' = score.mistakes
               /\ warning' = "none"
               /\ answered' = answered + 1
               /\ UNCHANGED <<surface, sel_operation, sel_mode, config, keys, started, answer_log, answer_input>>
               /\ IF current_question < num_questions
                  THEN /\ current_question' = current_question + 1
                       /\ problem' \in TrainProblems(max_number, operation, mode)
                       /\ UNCHANGED <<pc, error, shown, disk>>
                  ELSE /\ UNCHANGED <<current_question, problem>>
                       /\ TrainEnd(user, num_questions, operation, mode,
                                   score.correct_answers, times)

\* ------------------------------------------- src/trainer_streamlit.py: main
\* ensure_session_initialized: the keys afterwards.  A key that is missing
\* gets its default, which is the value the model keeps for a deleted key.
ensure_session_initialized(ks) == ks \cup InitKeys

\* reset_session: the keys afterwards
reset_session(ks) == ks \ ResetKeys

\* The "Your answer" widget was drawn by the last script run.
WidgetShown ==
    /\ surface = "streamlit"
    /\ pc = "page"
    /\ error = "none"
    /\ started

\* The "Do another round" button was drawn by the last script run.
ResultsShown ==
    /\ surface = "streamlit"
    /\ pc = "page"
    /\ error = "none"
    /\ ~started
    /\ total_times # <<>>

\* Mutant: the test of the last question is `>` instead of `>=`.
advance_after_answer_late(user_answer, q_time) ==
    LET eq_compact == compact_equation(problem.prompt, user_answer)
        right == user_answer = problem.correct
    IN  [total_times |-> Append(total_times, q_time),
         correct_count |-> IF right THEN correct_count + 1 ELSE correct_count,
         answer_log |-> Append(answer_log,
                               [ok |-> right, eq |-> eq_compact, correct |-> problem.correct]),
         mistakes |-> IF right THEN mistakes
                      ELSE Append(mistakes, <<problem.prompt, user_answer, problem.correct>>),
         finished |-> current_question > num_questions]

\* advance_after_answer up to the test of current_question: the session
\* fields after the answer was timed, logged and scored.
advance_after_answer(user_answer, q_time) ==
    LET eq_compact == compact_equation(problem.prompt, user_answer)
        right == user_answer = problem.correct
    IN  [total_times |-> Append(total_times, q_time),
         correct_count |-> IF right THEN correct_count + 1 ELSE correct_count,
         answer_log |-> Append(answer_log,
                               [ok |-> right, eq |-> eq_compact, correct |-> problem.correct]),
         mistakes |-> IF right THEN mistakes
                      ELSE Append(mistakes, <<problem.prompt, user_answer, problem.correct>>),
         finished |-> current_question >= num_questions]

\* The `with tab_train:` block of main(), run with the session fields st, n,
\* op, m, cc, times after the callback and the buttons: the question page,
\* the results (displayed, then saved under the sidebar's user u) or the
\* "press Start" hint.  completes: this run scored the session's last answer.
\* w: the warning the callback showed.
TrainTab(u, st, n, op, m, cc, times, completes, w) ==
    /\ error' = "none"
    /\ IF st \/ times = <<>>
       THEN /\ shown' = NoSummary
            /\ warning' = w
            /\ UNCHANGED disk
       ELSE LET accuracy == Accuracy(cc, n)
                avg_time == AvgTime(times)
            IN  /\ shown' = Summary(accuracy, avg_time)
                /\ sessions' = IF completes
                               THEN Append(sessions, <<get_history_filename(u),
                                           Row(now, accuracy, avg_time, n, op, m)>>)
                               ELSE sessions
                /\ now' = now + 1
                /\ \E io \in IOOutcomes :
                       /\ warning' = IF io = "ok" THEN w ELSE "save_failed"
                       /\ write_failed' = (write_failed \/ io # "ok")
                       /\ log' = IF io = "ok"
                                 THEN save_result(log, u, now, accuracy, avg_time, n, op, m)
                                 ELSE log

\* The page is opened: the first script run, every widget at its default.
Load ==
    /\ surface = "streamlit"
    /\ abandoned' = FALSE
    /\ pc = "unloaded"
    /\ pc' = "page"
    /\ user' = <<"J", "u", "l", "i", "e">>
    /\ keys' = ensure_session_initialized(keys)
    /\ TrainTab(user', started, num_questions, operation, mode, correct_count,
                total_times, FALSE, "none")
    /\ UNCHANGED <<surface, sel_operation, sel_mode, max_number, num_questions, operation, mode, started,
                   current_question, correct_count, total_times, mistakes,
                   answer_log, problem, answer_input, answered>>

\* A sidebar widget is changed (here: the user; the others are read only by
\* Start): the script reruns with no callback and no button pressed.
Rerun ==
    /\ surface = "streamlit"
    /\ abandoned' = FALSE
    /\ pc = "page"
    /\ (~started /\ total_times # <<>>) => now < MaxSaves
    /\ \E u \in StreamlitUsers :
        /\ user' = u
        /\ keys' = ensure_session_initialized(keys)
        /\ answer_input' = IF WidgetShown THEN answer_input ELSE <<>>
        /\ TrainTab(u, started, num_questions, operation, mode, correct_count,
                    total_times, FALSE, "none")
        /\ UNCHANGED <<surface, sel_operation, sel_mode, pc, max_number, num_questions, operation, mode,
                       started, current_question, correct_count, total_times,
                       mistakes, answer_log, problem, answered>>

\* Mutant: correct_count is not set back to 0.
start_session_keeps_count(maxn, n, op, mode_arg) ==
    /\ started' = TRUE
    /\ current_question' = 1
    /\ UNCHANGED correct_count
    /\ total_times' = <<>>
    /\ mistakes' = <<>>
    /\ answer_log' = <<>>
    /\ max_number' = maxn
    /\ num_questions' = n
    /\ operation' = op
    /\ mode' = IF mode_arg = "both" THEN "mixed" ELSE mode_arg
    /\ problem' \in generate_problem(maxn, op, IF mode_arg = "both" THEN "mixed" ELSE mode_arg)

\* start_session, as called with (maxn, n, op, mode_arg)
start_session(maxn, n, op, mode_arg) ==
    /\ started' = TRUE
    /\ current_question' = 1
    /\ correct_count' = 0
    /\ total_times' = <<>>
    /\ mistakes' = <<>>
    /\ answer_log' = <<>>
    /\ max_number' = maxn
    /\ num_questions' = n
    /\ operation' = op
    /\ mode' = IF mode_arg = "both" THEN "mixed" ELSE mode_arg
    /\ problem' \in generate_problem(maxn, op, IF mode_arg = "both" THEN "mixed" ELSE mode_arg)

\* The Start button: reset_session, start_session with the sidebar's values,
\* then the question page.
StartClick ==
    /\ surface = "streamlit"
    /\ abandoned' = started
    /\ pc = "page"
    /\ now < MaxSaves
    /\ \E maxn \in SidebarMaxNumbers, n \in SidebarQuestionCounts,
          op \in {sel_operation}, mode_ui \in {sel_mode} :
        /\ answered + n <= MaxAnswers
        /\ start_session(maxn, n, op, mode_ui)
        /\ keys' = reset_session(ensure_session_initialized(keys))
                       \cup InitKeys \cup ResetKeys \cup ConfigKeys
        /\ answer_input' = IF WidgetShown THEN answer_input ELSE <<>>
        /\ TrainTab(user, TRUE, n, op, mode', 0, <<>>, FALSE, "none")
        /\ UNCHANGED <<surface, sel_operation, sel_mode, pc, user, answered>>

\* The Reset button: reset_session deletes the session keys, and the read of
\* st.session_state.started that follows in the same run raises
\* AttributeError, which ends the script run.
ResetClick ==
    /\ surface = "streamlit"
    /\ abandoned' = started
    /\ pc = "page"
    /\ keys' = reset_session(ensure_session_initialized(keys))
    /\ started' = FALSE
    /\ current_question' = 0
    /\ correct_count' = 0
    /\ total_times' = <<>>
    /\ mistakes' = <<>>
    /\ answer_log' = <<>>
    /\ problem' = NoProblem
    /\ answer_input' = <<>>
    /\ error' = "AttributeError"
    /\ warning' = "none"
    /\ shown' = NoSummary
    /\ UNCHANGED <<surface, sel_operation, sel_mode, pc, config, disk, answered>>

\* _handle_answer_change with a value that is empty after strip(): return.
AnswerBlank ==
    /\ WidgetShown
    /\ abandoned' = FALSE
    /\ \E raw \in RawInputs :
      \E entered \in {Strip(raw)} :
        /\ raw # answer_input
        /\ entered = <<>>
        /\ answer_input' = raw
        /\ keys' = ensure_session_initialized(keys)
        /\ TrainTab(user, started, num_questions, operation, mode, correct_count,
                    total_times, FALSE, "none")
        /\ UNCHANGED <<surface, sel_operation, sel_mode, pc, config, started, current_question,
                       correct_count, total_times, mistakes, answer_log, problem,
                       answered>>

\* _handle_answer_change with a value int() refuses: a warning, the input is
\* cleared.
AnswerInvalid ==
    /\ WidgetShown
    /\ abandoned' = FALSE
    /\ \E raw \in RawInputs :
      \E entered \in {Strip(raw)} :
        /\ raw # answer_input
        /\ entered # <<>>
        /\ ~ParseInt(entered).ok
        /\ answer_input' = <<>>
        /\ keys' = ensure_session_initialized(keys)
        /\ TrainTab(user, started, num_questions, operation, mode, correct_count,
                    total_times, FALSE, "not_integer")
        /\ UNCHANGED <<surface, sel_operation, sel_mode, pc, config, started, current_question,
                       correct_count, total_times, mistakes, answer_log, problem,
                       answered>>

\* _handle_answer_change with an integer: advance_after_answer, the input is
\* cleared, then the page is drawn: the next question, or the results, which
\* are saved.
AnswerInteger ==
    /\ WidgetShown
    /\ abandoned' = FALSE
    /\ \E raw \in RawInputs, q_time \in Latencies :
      \E entered \in {Strip(raw)} :
      \E ans_val \in {ParseInt(entered)} :
        /\ raw # answer_input
        /\ entered # <<>>
        /\ ans_val.ok
        /\ LET after == advance_after_answer(ans_val.val, q_time)
           IN  /\ total_times' = after.total_times
               /\ correct_count' = after.correct_count
               /\ answer_log' = after.answer_log
               /\ mistakes' = after.mistakes
               /\ IF after.finished
                  THEN /\ started' = FALSE
                       /\ UNCHANGED <<current_question, problem>>
                  ELSE /\ current_question' = current_question + 1
                       /\ problem' \in generate_problem(max_number, operation, mode)
                       /\ UNCHANGED started
               /\ answer_input' = <<>>
               /\ answered' = answered + 1
               /\ keys' = ensure_session_initialized(keys)
               /\ TrainTab(user, ~after.finished, num_questions, operation, mode,
                           after.correct_count, after.total_times, after.finished, "none")
               /\ UNCHANGED <<surface, sel_operation, sel_mode, pc, config>>

\* The "Do another round" button: its callback calls start_session with the
\* stored configuration, then the question page is drawn.
AnotherRound ==
    /\ ResultsShown
    /\ abandoned' = FALSE
    /\ now < MaxSaves
    /\ answered + num_questions <= MaxAnswers
    /\ start_session(max_number, num_questions, operation,
                     IF mode = "mixed" THEN "both" ELSE mode)
    /\ keys' = ensure_session_initialized(keys \cup ResetKeys \cup ConfigKeys)
    /\ answer_input' = <<>>
    /\ TrainTab(user, TRUE, num_questions, operation, mode, 0, <<>>, FALSE, "none")
    /\ UNCHANGED <<surface, sel_operation, sel_mode, pc, user, answered>>

\* ----------------------------------------------------------- specification
Next ==
    \/ Train
    \/ Shell
    \/ InputBlank
    \/ InputInvalid
    \/ InputInteger
    \/ Load
    \/ Rerun
    \/ StartClick
    \/ ResetClick
    \/ AnswerBlank
    \/ AnswerInvalid
    \/ AnswerInteger
    \/ AnotherRound

Spec == Init /\ [][Next]_vars

\* The user answers every question that is asked with an integer, sooner or
\* later.
LiveSpec == Spec /\ WF_vars(InputInteger) /\ WF_vars(AnswerInteger)

\* ------------------------------------------------------------------ phases
\* The session states of the two surfaces.  CLI: the process is blocked in
\* input() / has printed the summary and ended.  Streamlit: `started` / not
\* started with latencies recorded (the branch that presents the results).
InProgress ==
    \/ surface = "cli" /\ pc = "input"
    \/ surface = "streamlit" /\ started

Completed ==
    \/ surface = "cli" /\ pc = "exited" /\ shown.displayed
    \/ surface = "streamlit" /\ ~started /\ total_times # <<>>

ValidOperations == {"addition", "subtraction", "both"}

ValidModes == {"standard", "missing", "mixed"}

AllRows == UNION {{log[f].rows[i] : i \in 1..Len(log[f].rows)} : f \in Files}

\* ------------------------------------------------------------------ claims

\* C1: a configuration with question_count <= 0 is rejected before any
\* session starts: no question is asked and the accuracy / average-latency
\* computation is never reached, so no division by zero occurs.
\* (Stated as the claim has it; `train` with num_questions = 0 violates it.)
C1_NonPositiveCountRejected ==
    num_questions <= 0 => ~InProgress /\ error # "ZeroDivisionError"

\* C2: a configuration whose operation_filter or pattern_mode is outside the
\* enumerated sets is rejected before any session starts: no problem is
\* generated, no answer is requested, no summary is made and no log row is
\* written.  (Stated as the claim has it; `train --mode hidden` violates it.)
C2_BadConfigRejected ==
    /\ (operation \notin ValidOperations \/ mode \notin ValidModes) =>
          ~InProgress /\ ~Completed /\ problem = NoProblem
    /\ \A r \in AllRows : r.Operation \in ValidOperations /\ r.Mode \in ValidModes

\* C3: while no write has failed, every user's log holds exactly one data row
\* per completed session of that user, in completion order.  (Stated as the
\* claim has it; a Streamlit rerun on the results page violates it.)
RECURSIVE SessionRows(_, _)
SessionRows(done, f) ==
    IF done = <<>> THEN <<>>
    ELSE (IF Head(done)[1] = f THEN <<Head(done)[2]>> ELSE <<>>)
             \o SessionRows(Tail(done), f)

C3_OneRowPerSession ==
    ~write_failed => \A f \in Files : log[f].rows = SessionRows(sessions, f)

\* C4: while a session is in progress, an answer that is empty or no integer
\* is rejected and the same question stays asked: question_index,
\* correct_count, the latencies, the mistakes and the problem are unchanged,
\* the session is still in progress and no error is raised.
RejectedAnswer == InputBlank \/ InputInvalid \/ AnswerBlank \/ AnswerInvalid

C4_RejectedAnswerKeepsQuestion ==
    [][RejectedAnswer =>
          /\ UNCHANGED <<current_question, correct_count, total_times, mistakes,
                         problem, num_questions, answered>>
          /\ InProgress'
          /\ error' = "none"]_vars

C4_Witness ==
    /\ InProgress
    /\ warning = "not_integer"
    /\ current_question = 2
    /\ Len(total_times) = 1

\* C5: for every completed session the reported accuracy equals
\* 100 * correct_count / question_count and lies in [0, 100], that is
\* 0 <= correct_count <= question_count, with question_count > 0.
C5_AccuracyExact ==
    Completed =>
        /\ shown.displayed
        /\ num_questions > 0
        /\ shown.accuracy.den > 0
        /\ shown.accuracy.num * num_questions = 100 * correct_count * shown.accuracy.den
        /\ 0 <= shown.accuracy.num
        /\ shown.accuracy.num <= 100 * shown.accuracy.den
        /\ 0 <= correct_count
        /\ correct_count <= num_questions

C5_Witness ==
    /\ Completed
    /\ num_questions = 2
    /\ correct_count = 1
    /\ Len(mistakes) = 1

\* C6: for every subtraction problem generated with max_operand >= 0,
\* 0 <= operand_b <= operand_a <= max_operand, the result equals
\* operand_a - operand_b and is not negative, and the expected answer (the
\* result in standard form, operand_b in missing form) is not negative.
C6_SubtractionNonNegative ==
    (problem.current_op = "subtraction" /\ max_number >= 0) =>
        /\ 0 <= problem.b
        /\ problem.b <= problem.a
        /\ problem.a <= max_number
        /\ problem.result = problem.a - problem.b
        /\ problem.result >= 0
        /\ problem.correct = IF problem.is_missing_val THEN problem.b ELSE problem.result
        /\ problem.correct >= 0

C6_Witness ==
    /\ problem.current_op = "subtraction"
    /\ problem.a = max_number
    /\ problem.a >= 1
    /\ problem.b = problem.a
    /\ problem.is_missing_val

\* C7 as stated: for every addition problem the result equals
\* operand_a + operand_b with both operands in [0, max_operand]; with an
\* operand hidden the prompt is `a + _ = result` and the expected answer is
\* operand_b, otherwise the prompt is `a + b = ` and the expected answer is
\* the result.  (The Streamlit generator violates the last prompt.)
AdditionSums ==
    /\ problem.result = problem.a + problem.b
    /\ problem.a \in 0..max_number
    /\ problem.b \in 0..max_number

HiddenAdditionForm ==
    /\ problem.prompt = <<Str(problem.a), "+", "_", "=", Str(problem.result)>>
    /\ problem.correct = problem.b

C7_AdditionAsStated ==
    problem.current_op = "addition" =>
        /\ AdditionSums
        /\ IF problem.is_missing_val
           THEN HiddenAdditionForm
           ELSE /\ problem.prompt = <<Str(problem.a), "+", Str(problem.b), "=">>
                /\ problem.correct = problem.result

\* C7 amended: as above, but in standard form the prompt is `a + b = ` on the
\* CLI and `a + b = ?` on the Streamlit page.
C7_AdditionPerSurface ==
    problem.current_op = "addition" =>
        /\ AdditionSums
        /\ IF problem.is_missing_val
           THEN HiddenAdditionForm
           ELSE /\ problem.prompt =
                      IF surface = "cli"
                      THEN <<Str(problem.a), "+", Str(problem.b), "=">>
                      ELSE <<Str(problem.a), "+", Str(problem.b), "=", "?">>
                /\ problem.correct = problem.result

C7_Witness ==
    /\ surface = "streamlit"
    /\ problem.current_op = "addition"
    /\ ~problem.is_missing_val
    /\ problem.a = 1
    /\ problem.b = 1

\* C8: with pattern_mode = standard the prompt never contains the blank
\* marker `_`; with pattern_mode = missing it contains exactly one, in the
\* place of operand_b, and the expected answer is that hidden operand.
BlankMarker == "_"

Blanks(prompt) == {i \in 1..Len(prompt) : prompt[i] = BlankMarker}

SessionFields == <<correct_count, total_times, mistakes>>

C9_CountsInv ==
    /\ InProgress =>
          /\ 1 <= current_question
          /\ current_question <= num_questions
          /\ Len(total_times) = current_question - 1
    /\ Completed =>
          /\ current_question = num_questions
          /\ Len(total_times) = num_questions

\* a session start: the first question is asked with every count at zero
SessionStarted ==
    /\ InProgress'
    /\ current_question' = 1
    /\ correct_count' = 0
    /\ total_times' = <<>>
    /\ mistakes' = <<>>

\* the CLI process, and its locals with it, is gone
ProcessEnded == surface = "cli" /\ pc' = "shell"

\* Reset on the Streamlit page: the session keys are deleted
SessionReset ==
    /\ surface = "streamlit"
    /\ ~InProgress'
    /\ ~Completed'
    /\ ResetKeys \cap keys' = {}

CompletedByLastAnswer == (~Completed /\ Completed') => (InProgress /\ answered' = answered + 1)

\* C9 as stated (the part that Reset violates): once Completed, the counts
\* stay unchanged until a new session start.
C9_CompletedUntilStart ==
    [][Completed =>
          \/ Completed' /\ UNCHANGED SessionFields /\ UNCHANGED answered
          \/ SessionStarted
          \/ ProcessEnded]_vars

\* C9 amended: ... until a new session start re-initialises them or Reset
\* discards them; a session in progress is eventually Completed unless Start
\* or Reset discards it first.
C9_CompletedTerminal ==
    /\ []C9_CountsInv
    /\ [][CompletedByLastAnswer]_vars
    /\ [][Completed =>
             \/ Completed' /\ UNCHANGED SessionFields /\ UNCHANGED answered
             \/ SessionStarted
             \/ ProcessEnded
             \/ SessionReset]_vars
    /\ (InProgress ~> (Completed \/ abandoned))

C9_Witness ==
    /\ surface = "streamlit"
    /\ InProgress
    /\ current_question = 1
    /\ total_times = <<>>
    /\ now = 1
    /\ sessions # <<>>

\* C10: a failure to write the log when the summary is saved is a non-fatal
\* warning: the session is Completed with its summary displayed and no error
\* ends the program.  (Stated as the claim has it; `train` violates it.)
C10_SaveFailureIsWarning ==
    /\ error # "OSError"
    /\ warning = "save_failed" => Completed /\ shown.displayed

\* An integer answer was accepted and scored in this step.
AcceptedAnswer == answered' = answered + 1

\* The answer scored as correct: one more correct answer, no mistake record.
ScoredCorrect ==
    /\ correct_count' = correct_count + 1
    /\ mistakes' = mistakes

\* The answer scored as wrong: the count stays and one record (prompt shown,
\* given answer, correct answer) with given # correct is appended.
ScoredMistake ==
    /\ correct_count' = correct_count
    /\ Len(mistakes') = Len(mistakes) + 1
    /\ SubSeq(mistakes', 1, Len(mistakes)) = mistakes
    /\ LET rec == mistakes'[Len(mistakes')]
       IN  /\ rec[1] = problem.prompt
           /\ rec[3] = problem.correct
           /\ rec[2] # rec[3]

\* The counters of the session as a whole.
Counters == <<correct_count, total_times, mistakes>>

CountersCleared ==
    /\ correct_count' = 0
    /\ total_times' = <<>>
    /\ mistakes' = <<>>

\* With k = the number of latencies recorded: correct answers and mistakes add
\* up to k, and the question asked is number k + 1.
C11_CountsAddUp ==
    /\ correct_count + Len(mistakes) = Len(total_times)
    /\ InProgress => current_question = Len(total_times) + 1
    /\ \A i \in 1..Len(mistakes) : mistakes[i][2] # mistakes[i][3]

\* C11: after k accepted integer answers of a session there are exactly k
\* latencies, correct_count + number of mistakes = k and, while the session is
\* in progress, question_index = k + 1; every accepted answer adds one latency
\* and either increments correct_count or appends one mistake record (prompt
\* shown, given, correct) with given # correct, never both and never neither;
\* no other step touches the counters except to clear all of them.
C11_AnswerCounters ==
    /\ []C11_CountsAddUp
    /\ [][AcceptedAnswer => /\ Len(total_times') = Len(total_times) + 1
                            /\ SubSeq(total_times', 1, Len(total_times)) = total_times
                            /\ (ScoredCorrect \/ ScoredMistake)
                            /\ ~(ScoredCorrect /\ ScoredMistake)]_vars
    /\ [][~AcceptedAnswer => (UNCHANGED Counters \/ CountersCleared)]_vars

\* A session in which one answer was scored correct and one as a mistake.
C11_Witness ==
    /\ Len(total_times) = 2
    /\ correct_count = 1
    /\ Len(mistakes) = 1
    /\ answered = 2

\* C12: on the Streamlit page every session field the render step reads is
\* defined when it is read, after any sequence of Start, Reset, answers and
\* reruns: no script run ends in the AttributeError of a deleted key, and the
\* run of a Reset click renders the "press Start" state.
C12_RenderReadsDefinedKeys ==
    surface = "streamlit" => error # "AttributeError"

====
